---- MODULE Spec2Model ----
(***************************************************************************)
(* OpenAIChatGenerator (haystack/components/generators/chat/openai.py).    *)
(* One generator object, a caller that invokes run again and again, the   *)
(* transport (client.chat.completions.create) and the streaming callback. *)
(*                                                                         *)
(* Python values:                                                          *)
(*   - a dict is a function whose domain is its key set;                   *)
(*   - an Optional[T] object is a sequence of length 0 (None) or 1;        *)
(*   - an Optional[str] is a string, None being the reserved string None;  *)
(*   - StreamingChunk.content, which the code fills with either a str or   *)
(*     a function-call object, is a record tagged with its Python type.    *)
(***************************************************************************)
EXTENDS Integers, Sequences, FiniteSets, TLC

\* ---------------------------------------------------------------- bounds
MaxMsgs == 2        \* longest message list handed to run
MaxChunks == 3      \* longest stream the transport produces
MaxChoices == 2     \* most choices of a non-stream completion

\* ---------------------------------------------------------- Python values
None == "<None>"
EmptyDict == <<>>

SeqsUpTo(S, n) == UNION {[1..k -> S] : k \in 0..n}

\* x or {} for an Optional[Dict]
OrEmptyDict(o) == IF o = <<>> \/ o[1] = EmptyDict THEN EmptyDict ELSE o[1]

\* bool(v) for an Optional[str]
Truthy(v) == v # None /\ v # ""

\* {**a, **b}
MergeDicts(a, b) ==
    [k \in (DOMAIN a) \cup (DOMAIN b) |-> IF k \in DOMAIN b THEN b[k] ELSE a[k]]

\* d without key k (the dict left by d.pop(k, default))
DictWithout(d, k) == [j \in (DOMAIN d) \ {k} |-> d[j]]

\* d.get(k, default)
DictGet(d, k, default) == IF k \in DOMAIN d THEN d[k] ELSE default

\* ------------------------------------------------------------ input sets
\* generation options: n, and temperature in tenths
DefaultKwargs ==
    {EmptyDict, [n |-> 1], [n |-> 2], [temperature |-> 9],
     [n |-> 1, temperature |-> 9], [n |-> 2, temperature |-> 9]}
CallKwargs ==
    {EmptyDict, [n |-> 1], [n |-> 2], [temperature |-> 2],
     [n |-> 1, temperature |-> 2], [n |-> 2, temperature |-> 2]}
Optional(S) == {<<>>} \cup {<<x>> : x \in S}

\* ChatMessage(content, role, name, meta) as the caller writes them
InputMessages ==
    {[content |-> "hi", role |-> "user", name |-> None, meta |-> EmptyDict],
     [content |-> "hi", role |-> "user", name |-> "", meta |-> EmptyDict],
     [content |-> "hi", role |-> "system", name |-> "bob", meta |-> EmptyDict],
     [content |-> "", role |-> "user", name |-> None, meta |-> EmptyDict]}

ModelName == "gpt-3.5-turbo"

\* ChatCompletion choices: index ascending from 0, a finish reason, a message
FunctionCall == [name |-> "f", arguments |-> "{}"]
ChoiceOf(i, fr) ==
    [index |-> i, finish_reason |-> fr,
     message |-> IF fr = "function_call"
                 THEN [content |-> None, function_call |-> <<FunctionCall>>]
                 ELSE [content |-> "Hello", function_call |-> <<>>]]
FinishReasons == {"stop", "length", "content_filter", "function_call"}
Usages ==
    {[prompt_tokens |-> 15, completion_tokens |-> 36, total_tokens |-> 51],
     [prompt_tokens |-> 1, completion_tokens |-> 2, total_tokens |-> 3]}
Completions ==
    {[kind |-> "ChatCompletion", model |-> "gpt-3.5-turbo-0613",
      choices |-> [i \in 1..Len(frs) |-> ChoiceOf(i - 1, frs[i])], usage |-> u] :
        frs \in SeqsUpTo(FinishReasons, MaxChoices), u \in Usages}

\* ChatCompletionChunk: zero or one choice, each with a delta
DeltaChoice(content, fc, fr) ==
    [index |-> 0, finish_reason |-> fr,
     delta |-> [content |-> content, function_call |-> fc]]
StreamChunks ==
    {[model |-> "", choices |-> <<>>]}
    \cup {[model |-> "gpt-3.5-turbo-0613", choices |-> <<c>>] :
            c \in {DeltaChoice("", <<>>, None),
                   DeltaChoice("Hel", <<>>, None),
                   DeltaChoice("lo", <<>>, None),
                   DeltaChoice(None, <<[name |-> "f", arguments |-> ""]>>, None),
                   DeltaChoice(None, <<>>, "stop"),
                   DeltaChoice(None, <<>>, "length")}}

\* ------------------------------------------------------------------ state
VARIABLES
    self_generation_kwargs,  \* self.generation_kwargs
    streaming_callback,      \* TRUE iff self.streaming_callback is not None
    initDefaults,            \* the options the constructor was given (history)
    calledBefore,            \* TRUE once an earlier run call has ended (history)
    pc,                      \* where the current run call is
    call,                    \* arguments of the run call whose create is in flight
    request,                 \* the create call in flight at the transport
    createCalls,             \* create calls issued by the current run call
    generation_kwargs,       \* run's local merged options
    chat_completion,         \* what create returned
    arrived,                 \* chunks the stream has yielded so far (history)
    chunk,                   \* run's loop variable: the last chunk taken
    chunks,                  \* run's buffer of StreamingChunk
    cbLog,                   \* streaming callback invocations, in order
    cbReturned,              \* how many of them have returned
    completions,             \* run's list of ChatMessage
    replies,                 \* the list run returned
    warnings,                \* logger.warning records of the current run call
    error                    \* the exception that left run

vars ==
    <<self_generation_kwargs, streaming_callback, initDefaults, calledBefore, pc, call, request,
      createCalls, generation_kwargs, chat_completion, arrived, chunk, chunks,
      cbLog, cbReturned, completions, replies, warnings, error>>

NoCompletion == [kind |-> "None"]
StreamObject == [kind |-> "Stream"]

\* run-local state before and between run calls
RunLocalsCleared ==
    /\ call = <<>>
    /\ request = <<>>
    /\ createCalls = 0
    /\ generation_kwargs = EmptyDict
    /\ chat_completion = NoCompletion
    /\ arrived = <<>>
    /\ chunk = <<>>
    /\ chunks = <<>>
    /\ cbLog = <<>>
    /\ cbReturned = 0
    /\ completions = <<>>
    /\ replies = <<>>
    /\ warnings = <<>>
    /\ error = "none"

\* __init__(streaming_callback, generation_kwargs)
Init ==
    /\ \E kw \in Optional(DefaultKwargs) :
          /\ self_generation_kwargs = OrEmptyDict(kw)
          /\ initDefaults = OrEmptyDict(kw)
    /\ streaming_callback \in BOOLEAN
    /\ calledBefore = FALSE
    /\ pc = "idle"
    /\ RunLocalsCleared

\* ------------------------------------------------------- pure functions
\* _convert_to_openai_format: one filtered dict per message, in order
OpenAIChatMessageFormat == {"role", "content", "name"}
\* FilteredMessage without the "and v" of the comprehension
FilteredMessageKeepEmpty(m) ==
    [k \in {j \in DOMAIN m : j \in {"role", "content", "name"}} |-> m[k]]
FilteredMessage(m) ==
    [k \in {j \in DOMAIN m : j \in OpenAIChatMessageFormat /\ Truthy(m[j])} |-> m[k]]
_convert_to_openai_format(messages) ==
    [i \in 1..Len(messages) |-> FilteredMessage(messages[i])]

\* ChatMessage.from_assistant(content) followed by meta.update(meta)
AssistantMessage(content, meta) ==
    [content |-> content, role |-> "assistant", name |-> None, meta |-> meta]

\* _build_chunk
PyStr(s) == [type |-> "str", val |-> s]
PyFunctionCall(fc) == [type |-> "ChoiceDeltaFunctionCall", val |-> fc.name]
_build_chunk(ck, choice) ==
    LET has_content == Truthy(choice.delta.content)
        has_function_call == choice.delta.function_call # <<>>
        content == IF has_content THEN PyStr(choice.delta.content)
                   ELSE IF has_function_call
                        THEN PyFunctionCall(choice.delta.function_call[1])
                        ELSE PyStr("")
    IN  [content |-> content,
         meta |-> [model |-> ck.model, index |-> choice.index,
                   finish_reason |-> choice.finish_reason]]

\* "".join([chunk.content for chunk in chunks])
RECURSIVE JoinContents(_)
JoinContents(cs) ==
    IF cs = <<>> THEN "" ELSE cs[1].content.val \o JoinContents(Tail(cs))

\* the exception _connect_chunks raises, "none" when it returns
ConnectError(last, cs) ==
    IF \E i \in 1..Len(cs) : cs[i].content.type # "str" THEN "TypeError"
    ELSE IF last = <<>> THEN "AttributeError"
    ELSE IF last[1].choices = <<>> THEN "IndexError"
    ELSE "none"

\* _connect_chunks joining the buffer last chunk first
RECURSIVE JoinContentsReversed(_)
JoinContentsReversed(cs) ==
    IF cs = <<>> THEN "" ELSE JoinContentsReversed(Tail(cs)) \o cs[1].content.val
_connect_chunks_reversed(last, cs) ==
    [content |-> JoinContentsReversed(cs), role |-> "assistant", name |-> None,
     meta |-> [model |-> last[1].model, index |-> 0,
               finish_reason |-> last[1].choices[1].finish_reason,
               usage |-> EmptyDict]]

\* _connect_chunks, where it returns
_connect_chunks(last, cs) ==
    AssistantMessage(JoinContents(cs),
                     [model |-> last[1].model, index |-> 0,
                      finish_reason |-> last[1].choices[1].finish_reason,
                      usage |-> EmptyDict])

\* json.dumps({"name": ..., "arguments": ...})
JsonDumps(fc) ==
    "{\"name\": \"" \o fc.name \o "\", \"arguments\": \"" \o fc.arguments \o "\"}"

\* _build_message taking every index from the first choice
_build_message_index0(completion, choice) ==
    [content |-> IF choice.finish_reason = "function_call"
                 THEN JsonDumps(choice.message.function_call[1])
                 ELSE choice.message.content,
     role |-> "assistant", name |-> None,
     meta |-> [model |-> completion.model, index |-> 0,
               finish_reason |-> choice.finish_reason, usage |-> completion.usage]]

\* _build_message
_build_message(completion, choice) ==
    LET message == choice.message
        content == IF choice.finish_reason = "function_call"
                   THEN JsonDumps(message.function_call[1])
                   ELSE message.content
    IN  AssistantMessage(content,
                         [model |-> completion.model, index |-> choice.index,
                          finish_reason |-> choice.finish_reason,
                          usage |-> completion.usage])

\* _check_finish_reason without its second if
_check_finish_reason_length_only(message) ==
    IF message.meta.finish_reason = "length"
    THEN <<[reason |-> "length", index |-> message.meta.index]>> ELSE <<>>

\* _check_finish_reason: the warnings it logs for one message
_check_finish_reason(message) ==
    (IF message.meta.finish_reason = "length"
     THEN <<[reason |-> "length", index |-> message.meta.index]>> ELSE <<>>)
    \o
    (IF message.meta.finish_reason = "content_filter"
     THEN <<[reason |-> "content_filter", index |-> message.meta.index]>> ELSE <<>>)

\* for message in completions: self._check_finish_reason(message)
RECURSIVE CheckAll(_)
CheckAll(ms) ==
    IF ms = <<>> THEN <<>> ELSE _check_finish_reason(ms[1]) \o CheckAll(Tail(ms))

\* ---------------------------------------------------------------- actions
\* run merging in place: self.generation_kwargs.update(generation_kwargs or {})
RunUpdatingDefaults(messages, kwargs) ==
    /\ pc = "idle"
    /\ self_generation_kwargs' = MergeDicts(self_generation_kwargs, OrEmptyDict(kwargs))
    /\ generation_kwargs' = self_generation_kwargs'
    /\ request' = <<[model |-> ModelName,
                     messages |-> _convert_to_openai_format(messages),
                     stream |-> streaming_callback,
                     kwargs |-> generation_kwargs']>>
    /\ call' = <<[messages |-> messages, generation_kwargs |-> kwargs]>>
    /\ createCalls' = createCalls + 1
    /\ pc' = "create"
    /\ UNCHANGED <<streaming_callback, initDefaults, calledBefore,
                   chat_completion, arrived, chunk, chunks, cbLog, cbReturned,
                   completions, replies, warnings, error>>

\* run, lines 156-166: merge the options, encode the messages, issue create
Run(messages, kwargs) ==
    /\ pc = "idle"
    /\ generation_kwargs' = MergeDicts(self_generation_kwargs, OrEmptyDict(kwargs))
    /\ request' = <<[model |-> ModelName,
                     messages |-> _convert_to_openai_format(messages),
                     stream |-> streaming_callback,
                     kwargs |-> generation_kwargs']>>
    /\ call' = <<[messages |-> messages, generation_kwargs |-> kwargs]>>
    /\ createCalls' = createCalls + 1
    /\ pc' = "create"
    /\ UNCHANGED <<self_generation_kwargs, streaming_callback, initDefaults, calledBefore,
                   chat_completion, arrived, chunk, chunks, cbLog, cbReturned,
                   completions, replies, warnings, error>>

\* create returns a Stream (it was called with stream=True)
TransportReturnsStream ==
    /\ pc = "create"
    /\ request[1].stream
    /\ chat_completion' = StreamObject
    /\ request' = <<>>
    /\ call' = <<>>
    /\ pc' = "dispatch"
    /\ UNCHANGED <<self_generation_kwargs, streaming_callback, initDefaults, calledBefore,
                   createCalls, generation_kwargs, arrived, chunk, chunks, cbLog,
                   cbReturned, completions, replies, warnings, error>>

\* create returns a ChatCompletion (it was called with stream=False)
TransportReturnsCompletion(c) ==
    /\ pc = "create"
    /\ ~request[1].stream
    /\ chat_completion' = c
    /\ request' = <<>>
    /\ call' = <<>>
    /\ pc' = "dispatch"
    /\ UNCHANGED <<self_generation_kwargs, streaming_callback, initDefaults, calledBefore,
                   createCalls, generation_kwargs, arrived, chunk, chunks, cbLog,
                   cbReturned, completions, replies, warnings, error>>

\* create raises: the exception leaves run unchanged
TransportRaises ==
    /\ pc = "create"
    /\ request' = <<>>
    /\ call' = <<>>
    /\ error' = "TransportError"
    /\ pc' = "raised"
    /\ UNCHANGED <<self_generation_kwargs, streaming_callback, initDefaults, calledBefore,
                   createCalls, generation_kwargs, chat_completion, arrived, chunk,
                   chunks, cbLog, cbReturned, completions, replies, warnings>>

\* lines 170-173: a Stream came back and the popped n is above 1
StreamRejected ==
    /\ pc = "dispatch"
    /\ chat_completion.kind = "Stream"
    /\ DictGet(generation_kwargs, "n", 1) > 1
    /\ generation_kwargs' = DictWithout(generation_kwargs, "n")
    /\ error' = "ValueError"
    /\ pc' = "raised"
    /\ UNCHANGED <<self_generation_kwargs, streaming_callback, initDefaults, calledBefore, call,
                   request, createCalls, chat_completion, arrived, chunk, chunks,
                   cbLog, cbReturned, completions, replies, warnings>>

\* lines 170-175: a Stream came back, n is at most 1, the loop is set up
StreamBegin ==
    /\ pc = "dispatch"
    /\ chat_completion.kind = "Stream"
    /\ ~(DictGet(generation_kwargs, "n", 1) > 1)
    /\ generation_kwargs' = DictWithout(generation_kwargs, "n")
    /\ chunks' = <<>>
    /\ chunk' = <<>>
    /\ pc' = "loop"
    /\ UNCHANGED <<self_generation_kwargs, streaming_callback, initDefaults, calledBefore, call,
                   request, createCalls, chat_completion, arrived, cbLog, cbReturned,
                   completions, replies, warnings, error>>

\* the loop body handing the chunk to a callback it does not wait for
StreamNextNotWaiting(ck) ==
    /\ pc = "loop"
    /\ Len(arrived) < MaxChunks
    /\ arrived' = Append(arrived, ck)
    /\ chunk' = <<ck>>
    /\ IF ck.choices # <<>> /\ streaming_callback
       THEN /\ chunks' = Append(chunks, _build_chunk(ck, ck.choices[1]))
            /\ cbLog' = Append(cbLog, [chunk |-> _build_chunk(ck, ck.choices[1]),
                                       at |-> Len(arrived')])
       ELSE UNCHANGED <<chunks, cbLog>>
    /\ UNCHANGED <<self_generation_kwargs, streaming_callback, initDefaults, calledBefore, call,
                   request, createCalls, generation_kwargs, chat_completion,
                   cbReturned, completions, replies, warnings, error, pc>>

\* the loop body buffering and delivering only chunks with non-empty content
StreamNextNonEmptyOnly(ck) ==
    /\ pc = "loop"
    /\ Len(arrived) < MaxChunks
    /\ arrived' = Append(arrived, ck)
    /\ chunk' = <<ck>>
    /\ IF /\ ck.choices # <<>>
          /\ streaming_callback
          /\ _build_chunk(ck, ck.choices[1]).content # PyStr("")
       THEN /\ chunks' = Append(chunks, _build_chunk(ck, ck.choices[1]))
            /\ cbLog' = Append(cbLog, [chunk |-> _build_chunk(ck, ck.choices[1]),
                                       at |-> Len(arrived')])
            /\ pc' = "callback"
       ELSE UNCHANGED <<chunks, cbLog, pc>>
    /\ UNCHANGED <<self_generation_kwargs, streaming_callback, initDefaults, calledBefore, call,
                   request, createCalls, generation_kwargs, chat_completion,
                   cbReturned, completions, replies, warnings, error>>

\* lines 178-182: the stream yields ck; with a choice, it is built, buffered
\* and handed to the callback, which is then running
StreamNext(ck) ==
    /\ pc = "loop"
    /\ Len(arrived) < MaxChunks
    /\ arrived' = Append(arrived, ck)
    /\ chunk' = <<ck>>
    /\ IF ck.choices # <<>> /\ streaming_callback
       THEN LET chunk_delta == _build_chunk(ck, ck.choices[1])
            IN  /\ chunks' = Append(chunks, chunk_delta)
                /\ cbLog' = Append(cbLog, [chunk |-> chunk_delta, at |-> Len(arrived')])
                /\ pc' = "callback"
       ELSE UNCHANGED <<chunks, cbLog, pc>>
    /\ UNCHANGED <<self_generation_kwargs, streaming_callback, initDefaults, calledBefore, call,
                   request, createCalls, generation_kwargs, chat_completion,
                   cbReturned, completions, replies, warnings, error>>

\* the streaming callback returns
CallbackReturns ==
    /\ pc = "callback"
    /\ cbReturned' = cbReturned + 1
    /\ pc' = "loop"
    /\ UNCHANGED <<self_generation_kwargs, streaming_callback, initDefaults, calledBefore, call,
                   request, createCalls, generation_kwargs, chat_completion, arrived,
                   chunk, chunks, cbLog, completions, replies, warnings, error>>

\* the callback's exception caught inside the loop, which goes on
CallbackRaisesSwallowed ==
    /\ pc = "callback"
    /\ error' = "CallbackError"
    /\ pc' = "loop"
    /\ UNCHANGED <<self_generation_kwargs, streaming_callback, initDefaults, calledBefore, call,
                   request, createCalls, generation_kwargs, chat_completion, arrived,
                   chunk, chunks, cbLog, cbReturned, completions, replies, warnings>>

\* the streaming callback raises: nothing in run catches it
CallbackRaises ==
    /\ pc = "callback"
    /\ error' = "CallbackError"
    /\ pc' = "raised"
    /\ UNCHANGED <<self_generation_kwargs, streaming_callback, initDefaults, calledBefore, call,
                   request, createCalls, generation_kwargs, chat_completion, arrived,
                   chunk, chunks, cbLog, cbReturned, completions, replies, warnings>>

\* line 183: the stream is exhausted, the chunks are connected
StreamEnd ==
    /\ pc = "loop"
    /\ LET e == ConnectError(chunk, chunks)
       IN  IF e # "none"
           THEN /\ error' = e
                /\ pc' = "raised"
                /\ UNCHANGED completions
           ELSE /\ completions' = <<_connect_chunks(chunk, chunks)>>
                /\ pc' = "post"
                /\ UNCHANGED error
    /\ UNCHANGED <<self_generation_kwargs, streaming_callback, initDefaults, calledBefore, call,
                   request, createCalls, generation_kwargs, chat_completion, arrived,
                   chunk, chunks, cbLog, cbReturned, replies, warnings>>

\* lines 185-186: a ChatCompletion came back, one message per choice
BuildCompletions ==
    /\ pc = "dispatch"
    /\ chat_completion.kind = "ChatCompletion"
    /\ completions' = [i \in 1..Len(chat_completion.choices) |->
                          _build_message(chat_completion, chat_completion.choices[i])]
    /\ pc' = "post"
    /\ UNCHANGED <<self_generation_kwargs, streaming_callback, initDefaults, calledBefore, call,
                   request, createCalls, generation_kwargs, chat_completion, arrived,
                   chunk, chunks, cbLog, cbReturned, replies, warnings, error>>

\* lines 189-192: check every finish reason, return the replies
PostProcess ==
    /\ pc = "post"
    /\ warnings' = CheckAll(completions)
    /\ replies' = completions
    /\ pc' = "done"
    /\ UNCHANGED <<self_generation_kwargs, streaming_callback, initDefaults, calledBefore, call,
                   request, createCalls, generation_kwargs, chat_completion, arrived,
                   chunk, chunks, cbLog, cbReturned, completions, error>>

\* run has returned or raised; its locals are gone and the caller may call again
NextCall ==
    /\ pc \in {"done", "raised"}
    /\ pc' = "idle"
    /\ call' = <<>>
    /\ request' = <<>>
    /\ createCalls' = 0
    /\ generation_kwargs' = EmptyDict
    /\ chat_completion' = NoCompletion
    /\ arrived' = <<>>
    /\ chunk' = <<>>
    /\ chunks' = <<>>
    /\ cbLog' = <<>>
    /\ cbReturned' = 0
    /\ completions' = <<>>
    /\ replies' = <<>>
    /\ warnings' = <<>>
    /\ error' = "none"
    /\ calledBefore' = TRUE
    /\ UNCHANGED <<self_generation_kwargs, streaming_callback, initDefaults>>

Next ==
    \/ \E messages \in SeqsUpTo(InputMessages, MaxMsgs), kwargs \in Optional(CallKwargs) :
          Run(messages, kwargs)
    \/ TransportReturnsStream
    \/ \E c \in Completions : TransportReturnsCompletion(c)
    \/ TransportRaises
    \/ StreamRejected
    \/ StreamBegin
    \/ \E ck \in StreamChunks : StreamNext(ck)
    \/ CallbackReturns
    \/ CallbackRaises
    \/ StreamEnd
    \/ BuildCompletions
    \/ PostProcess
    \/ NextCall

Spec == Init /\ [][Next]_vars

\* ----------------------------------------------------------------- claims
InStream == chat_completion.kind = "Stream"
InCompletion == chat_completion.kind = "ChatCompletion"
Last(q) == q[Len(q)]

\* C1: when run raises the configuration error (streaming callback configured,
\* merged n > 1), the transport's create call has not been issued by that run.
C1_ConfigErrorBeforeTransport ==
    error = "ValueError" => createCalls = 0

\* the deliveries so far: chunks of the stream, at increasing positions, at
\* most one of them not yet returned
C2_Delivered ==
    /\ \A i \in 1..Len(cbLog) :
          /\ cbLog[i].at \in 1..Len(arrived)
          /\ arrived[cbLog[i].at].choices # <<>>
          /\ cbLog[i].chunk.meta.finish_reason
                = arrived[cbLog[i].at].choices[1].finish_reason
    /\ \A i, j \in 1..Len(cbLog) : i < j => cbLog[i].at < cbLog[j].at
    /\ Len(cbLog) - cbReturned \in {0, 1}
\* one step: a chunk is taken only when no callback is running, and a new
\* delivery is of the chunk just taken
C2_Step ==
    /\ Len(arrived') > Len(arrived) => cbReturned = Len(cbLog)
    /\ Len(cbLog') > Len(cbLog) =>
          /\ Len(cbLog') = Len(cbLog) + 1
          /\ SubSeq(cbLog', 1, Len(cbLog)) = cbLog
          /\ Last(cbLog').at = Len(arrived')
          /\ Len(arrived') = Len(arrived) + 1
\* C2: callbacks happen in chunk-arrival order and never overlap: a chunk is
\* taken from the stream, and a callback started, only when every earlier
\* callback has returned; each callback gets the chunk just taken, so the
\* delivered chunks are a subsequence of the stream in its order.
C2_CallbacksInOrderNeverOverlap ==
    [](C2_Delivered) /\ [][C2_Step]_vars
C2_Witness ==
    /\ pc = "done"
    /\ Len(cbLog) = 2
    /\ cbLog[1].at = 1
    /\ cbLog[2].at = 3
    /\ cbReturned = 2

\* the text a chunk of the stream carries, and the texts of a stream folded
\* from the left in arrival order
TextOf(ck) ==
    IF ck.choices = <<>> \/ ck.choices[1].delta.content = None
    THEN "" ELSE ck.choices[1].delta.content
RECURSIVE TextInArrivalOrder(_, _)
TextInArrivalOrder(acc, rest) ==
    IF rest = <<>> THEN acc ELSE TextInArrivalOrder(acc \o TextOf(rest[1]), Tail(rest))
RECURSIVE Fragments(_)
Fragments(q) ==
    IF q = <<>> THEN <<>>
    ELSE (IF TextOf(q[1]) = "" THEN <<>> ELSE <<TextOf(q[1])>>) \o Fragments(Tail(q))
\* C3: the finalized message's content is the concatenation, in arrival
\* order, of the texts of the buffered chunks; "Hel","lo" gives "Hello" and
\* "lo","Hel" gives "loHel".
C3_ContentIsConcatenationInArrivalOrder ==
    (pc = "done" /\ InStream) =>
        /\ Len(replies) = 1
        /\ replies[1].content = TextInArrivalOrder("", arrived)
        /\ Len(chunks) = Len(cbLog)
        /\ Fragments(arrived) = <<"Hel", "lo">> => replies[1].content = "Hello"
        /\ Fragments(arrived) = <<"lo", "Hel">> => replies[1].content = "loHel"
C3_Witness ==
    /\ pc = "done"
    /\ InStream
    /\ Fragments(arrived) = <<"lo", "Hel">>
    /\ replies[1].content = "loHel"

\* the loop over the stream has ended without the callback raising
StreamDrained ==
    /\ InStream
    /\ \/ pc \in {"post", "done"}
       \/ pc = "raised" /\ error \notin {"ValueError", "CallbackError"}
\* C4: whenever the stream has been drained (n = 1), run returns exactly one
\* message, for every stream including the empty one and one whose last
\* chunk has no choice; its model and finish reason are the last chunk's,
\* its index is 0 and its usage is the empty mapping.
C4_DrainedStreamYieldsOneMessage ==
    StreamDrained =>
        /\ pc # "raised"
        /\ Len(completions) = 1
        /\ completions[1].meta.index = 0
        /\ completions[1].meta.usage = EmptyDict
        /\ arrived # <<>> => completions[1].meta.model = Last(arrived).model
        /\ (arrived # <<>> /\ Last(arrived).choices # <<>>) =>
              completions[1].meta.finish_reason = Last(arrived).choices[1].finish_reason

\* C5: a non-stream completion with k choices gives k messages in the order
\* of the choices, the i-th with the i-th choice's index and finish reason,
\* the completion's model and the completion's usage.
C5_OneMessagePerChoice ==
    (pc = "done" /\ InCompletion) =>
        /\ Len(replies) = Len(chat_completion.choices)
        /\ \A i \in 1..Len(replies) :
              /\ replies[i].meta.index = chat_completion.choices[i].index
              /\ replies[i].meta.finish_reason = chat_completion.choices[i].finish_reason
              /\ replies[i].meta.model = chat_completion.model
              /\ replies[i].meta.usage = chat_completion.usage
C5_Witness ==
    /\ pc = "done"
    /\ InCompletion
    /\ Len(replies) = 2
    /\ replies[1].meta.index = 0
    /\ replies[2].meta.index = 1
    /\ replies[1].meta.finish_reason # replies[2].meta.finish_reason
    /\ replies[1].meta.usage = replies[2].meta.usage

\* the option keys in use, and the options the call in flight was given
OptionKeys == {"n", "temperature"}
PerCallOptions ==
    IF call[1].generation_kwargs = <<>> THEN EmptyDict ELSE call[1].generation_kwargs[1]
\* C6: in every run call, the options sent to the transport are the
\* construction-time defaults overridden key by key by the call's options,
\* and the stored defaults never change, in the first call or a later one.
C6_MergedOptionsAndDefaultsUntouched ==
    /\ self_generation_kwargs = initDefaults
    /\ request # <<>> =>
          /\ DOMAIN request[1].kwargs \subseteq OptionKeys
          /\ \A k \in OptionKeys :
                IF k \in DOMAIN PerCallOptions
                THEN k \in DOMAIN request[1].kwargs
                     /\ request[1].kwargs[k] = PerCallOptions[k]
                ELSE IF k \in DOMAIN initDefaults
                THEN k \in DOMAIN request[1].kwargs
                     /\ request[1].kwargs[k] = initDefaults[k]
                ELSE k \notin DOMAIN request[1].kwargs
C6_Witness ==
    /\ calledBefore
    /\ request # <<>>
    /\ initDefaults = [n |-> 1, temperature |-> 9]
    /\ PerCallOptions = [temperature |-> 2]
    /\ request[1].kwargs = [n |-> 1, temperature |-> 2]

\* a message whose completion was cut short
Degraded(m) == m.meta.finish_reason \in {"length", "content_filter"}
\* C7: on both paths each returned message with finish reason "length" or
\* "content_filter" has exactly one warning, naming its index, every other
\* message has none, and the replies are the messages as they were built.
C7_OneReportPerDegradedMessage ==
    pc = "done" =>
        /\ replies = completions
        /\ LET deg == SelectSeq(replies, Degraded)
           IN  /\ Len(warnings) = Len(deg)
               /\ \A i \in 1..Len(deg) :
                     /\ warnings[i].index = deg[i].meta.index
                     /\ warnings[i].reason = deg[i].meta.finish_reason
C7_Witness ==
    /\ pc = "done"
    /\ InCompletion
    /\ Len(replies) = 2
    /\ replies[1].meta.finish_reason = "stop"
    /\ replies[2].meta.finish_reason = "content_filter"
    /\ warnings = <<[reason |-> "content_filter", index |-> 1]>>

\* after the callback raised: run has raised, nothing is returned, the
\* raising delivery is the last one and is of the last chunk taken
C8_Raised ==
    error = "CallbackError" =>
        /\ pc = "raised"
        /\ replies = <<>>
        /\ completions = <<>>
        /\ cbLog # <<>>
        /\ cbReturned = Len(cbLog) - 1
        /\ Last(cbLog).at = Len(arrived)
\* the raising step, and every later step of that run call, leaves the
\* stream position and the deliveries alone
C8_Step ==
    /\ (error # "CallbackError" /\ error' = "CallbackError") =>
          arrived' = arrived /\ cbLog' = cbLog /\ cbReturned' = cbReturned
    /\ (error = "CallbackError" /\ pc' # "idle") =>
          arrived' = arrived /\ cbLog' = cbLog /\ cbReturned' = cbReturned
\* C8: when the callback raises on the k-th delivered chunk the exception
\* leaves run at once: no further chunk is taken, no further callback is
\* invoked, nothing is returned, and the k-1 earlier deliveries stay as
\* they were.
C8_CallbackErrorAbortsStream ==
    [](C8_Raised) /\ [][C8_Step]_vars
C8_Witness ==
    /\ error = "CallbackError"
    /\ Len(cbLog) = 2
    /\ cbReturned = 1

\* C9: encoding keeps length and order; the i-th record holds exactly those
\* of role, content, name that are present and non-empty in the i-th message,
\* with the message's value, and no other key.
C9_WireRecords ==
    request # <<>> =>
        LET ms == call[1].messages
            ws == request[1].messages
        IN  /\ Len(ws) = Len(ms)
            /\ \A i \in 1..Len(ms) :
                  /\ DOMAIN ws[i] \subseteq {"role", "content", "name"}
                  /\ \A k \in {"role", "content", "name"} :
                        /\ k \in DOMAIN ws[i] <=> (ms[i][k] # None /\ ms[i][k] # "")
                        /\ k \in DOMAIN ws[i] => ws[i][k] = ms[i][k]
C9_Witness ==
    /\ request # <<>>
    /\ Len(call[1].messages) = 2
    /\ call[1].messages[1].name = ""
    /\ call[1].messages[2].name = "bob"
    /\ request[1].messages
          = <<[content |-> "hi", role |-> "user"],
              [content |-> "hi", role |-> "system", name |-> "bob"]>>

\* a chunk whose delta has text or a function-call fragment, and the stream
\* positions of the chunks delivered so far
CarriesContent(ck) ==
    /\ ck.choices # <<>>
    /\ \/ Truthy(ck.choices[1].delta.content)
       \/ ck.choices[1].delta.function_call # <<>>
DeliveredPositions == {cbLog[i].at : i \in 1..Len(cbLog)}
\* C10 as stated: a chunk is buffered and delivered to the callback if and
\* only if it carries non-empty content (text or a function-call fragment).
C10_DeliveredIffNonEmptyContent ==
    InStream =>
        DeliveredPositions = {j \in 1..Len(arrived) : CarriesContent(arrived[j])}

\* C10 amended: a chunk is buffered and delivered to the callback if and only
\* if it carries a choice; a chunk whose delta has neither text nor a
\* function-call fragment is buffered and delivered with empty content.
C10_DeliveredIffHasChoice ==
    InStream =>
        /\ DeliveredPositions = {j \in 1..Len(arrived) : arrived[j].choices # <<>>}
        /\ Len(chunks) = Len(cbLog)
        /\ \A i \in 1..Len(cbLog) :
              /\ chunks[i] = cbLog[i].chunk
              /\ ~CarriesContent(arrived[cbLog[i].at]) => chunks[i].content = PyStr("")
C10_Witness ==
    /\ InStream
    /\ Len(cbLog) = 2
    /\ cbLog[1].chunk.content = PyStr("Hel")
    /\ cbLog[2].chunk.content = PyStr("")
    /\ cbLog[2].chunk.meta.finish_reason = "stop"
    /\ cbReturned = 2

====
